---- MODULE Spec2Model ----
(***************************************************************************)
(* Model of the fleet controller of PNU_cloud_computing:                   *)
(*   - autoscaler/autoscaler.py    AutoScaler.scale, one tick per step     *)
(*   - load_balancer/health_check.py, balancer.py, server.py (further down)*)
(* Times are whole seconds.  Container references are positions in the     *)
(* fleet snapshot returned by list_containers.                             *)
(***************************************************************************)
EXTENDS Integers, Sequences, FiniteSets, TLC

VARIABLES
    containers,        \* the fleet, in list_containers order; each [fixed |-> BOOLEAN]
    above_since,       \* AutoScaler.above_since  (None or a timestamp)
    below_since,       \* AutoScaler.below_since
    last_scale_time,   \* AutoScaler.last_scale_time
    min_instances,     \* AutoScaler.min
    max_instances,     \* AutoScaler.max
    clock,             \* time.time() as seen by the autoscaler
    count0,            \* fleet size at construction (history)
    tick,              \* what the most recent call of scale() did (history)
    steady             \* the CPU load Prometheus reports when it is held
                       \* constant, and the fleets the floor branch restored
                       \* right after a removal (history)

VARIABLES
    backend_servers,        \* balancer.backend_servers
    current_index,          \* balancer.current_index
    selection_mode,         \* balancer.selection_mode
    server_last_success,    \* health_check.server_last_success
    immediate_check_event,  \* health_check.immediate_check_event
    prober_pc,              \* where the check_servers loop stands
    signal,                 \* the calls of trigger_server_refresh and what became
                            \* of them (history)
    lb_clock,               \* time.time() as seen by the load balancer
    last_probe,             \* per worker, how its latest /health probe ended (history)
    pass,                   \* what the latest iteration of check_servers did (history)
    response                \* what the latest /load request got, if one was made
                            \* since the latest publish or change of mode (history)

lb_vars == <<backend_servers, current_index, selection_mode, server_last_success,
             immediate_check_event, prober_pc, signal, lb_clock, last_probe, pass,
             response>>

VARIABLES
    picks,                  \* the direct calls of choose_backend, one after another,
                            \* since the latest publish or /load request (history)
    handlers                \* per concurrent caller of choose_backend, where it
                            \* stands and what it holds in its locals

sel_vars == <<picks, handlers>>

as_vars == <<containers, above_since, below_since, last_scale_time,
             min_instances, max_instances, clock, count0, tick, steady>>

----------------------------------------------------------------------------
(* Bounds of the model *)

MaxFleet == 2
MaxClock == 225
StartClock == 15

(* Inputs the environment can supply *)
TickGaps == {15, 30}            \* seconds between two calls of scale()
FetchDelays == {0, 15}          \* seconds spent between line 46 and line 93
RawLoads == {0, 80, 100, 1000}  \* 100 * (sum of CPU-seconds per second)

----------------------------------------------------------------------------
(* Program constants *)

None == -1
check_interval == 30
threshold100 == 50
num_cpus == 2
FetchFailed == None             \* get_metric raised: no value
SCALE_OUT_WINDOW == 180
SCALE_IN_WINDOW == 60
FAST_SCALE_IN_WINDOW == 15

----------------------------------------------------------------------------
(* DockerManager (metrics module, not part of the sources at hand) *)

is_fixed(c) == c.fixed

run_container(cs) == Append(cs, [fixed |-> FALSE])

remove_container(cs, target) ==
    [i \in 1..(Len(cs) - 1) |-> IF i < target THEN cs[i] ELSE cs[i + 1]]

----------------------------------------------------------------------------
(* AutoScaler.scale *)

\* autoscaled_containers, as the positions of the non-fixed containers, in order
RECURSIVE autoscaled_upto(_, _)
autoscaled_upto(cs, n) ==
    IF n = 0 THEN <<>>
    ELSE IF is_fixed(cs[n]) THEN autoscaled_upto(cs, n - 1)
         ELSE Append(autoscaled_upto(cs, n - 1), n)

autoscaled_containers(cs) == autoscaled_upto(cs, Len(cs))

\* avg_cpu is raw / (count * num_cpus) * 100, or 0.0 when count = 0; kept as
\* the fraction avg_num / avg_den so that the comparisons stay exact
avg_num(raw100, count) == IF count > 0 THEN raw100 ELSE 0
avg_den(count) == IF count > 0 THEN count * num_cpus ELSE 1

above_threshold(raw100, count) ==
    avg_num(raw100, count) > threshold100 * avg_den(count)

below_half_threshold(raw100, count) ==
    2 * avg_num(raw100, count) < threshold100 * avg_den(count)

\* which band the observed CPU falls in
band(raw100, count) ==
    IF above_threshold(raw100, count) THEN "scale_out"
    ELSE IF below_half_threshold(raw100, count) THEN "scale_in"
    ELSE "neither"

below_minimum(count) == count < min_instances

in_cooldown_reversed(now) ==
    /\ last_scale_time # None
    /\ last_scale_time # 0
    /\ now - last_scale_time > check_interval

in_cooldown(now) ==
    /\ last_scale_time # None
    /\ last_scale_time # 0
    /\ now - last_scale_time < check_interval

scale_out_due_unbounded(now, count) ==
    now - above_since >= SCALE_OUT_WINDOW

\* line 100 with > for >=
scale_out_due_late(now, count) ==
    /\ now - above_since > SCALE_OUT_WINDOW
    /\ count < max_instances

scale_out_due(now, count) ==
    /\ now - above_since >= SCALE_OUT_WINDOW
    /\ count < max_instances

scale_in_due(now, count) ==
    /\ now - below_since >= SCALE_IN_WINDOW
    /\ count > min_instances

fast_scale_in_due(now, cs) ==
    /\ now - below_since >= FAST_SCALE_IN_WINDOW
    /\ Len(autoscaled_containers(cs)) > 0

scale_in_target(cs) == Len(cs)

fast_scale_in_target_last(cs) == Len(cs)

fast_scale_in_target(cs) ==
    autoscaled_containers(cs)[Len(autoscaled_containers(cs))]

\* The outcome of one call: the fields of self, the fleet, and what was done
Outcome(a, b, l, cs, calls, fetched) ==
    [above_since |-> a, below_since |-> b, last_scale_time |-> l,
     containers |-> cs, calls |-> calls, fetched |-> fetched]

RunCall(site, ok) ==
    [op |-> "run", site |-> site, ok |-> ok, target_fixed |-> FALSE]

RemoveCall(site, ok, cs, target) ==
    [op |-> "remove", site |-> site, ok |-> ok, target_fixed |-> is_fixed(cs[target])]

floor_branch_unstamped(now, dock_ok) ==
    IF dock_ok
    THEN Outcome(None, None, last_scale_time, run_container(containers),
                 <<RunCall("floor", TRUE)>>, FALSE)
    ELSE Outcome(above_since, below_since, last_scale_time, containers,
                 <<RunCall("floor", FALSE)>>, FALSE)

\* lines 48-57
floor_branch(now, dock_ok) ==
    IF dock_ok
    THEN Outcome(None, None, now, run_container(containers),
                 <<RunCall("floor", TRUE)>>, FALSE)
    ELSE Outcome(above_since, below_since, last_scale_time, containers,
                 <<RunCall("floor", FALSE)>>, FALSE)

\* lines 100-108
scale_out_branch(now, dock_ok) ==
    IF dock_ok
    THEN Outcome(None, None, now, run_container(containers),
                 <<RunCall("scale_out", TRUE)>>, TRUE)
    ELSE Outcome(above_since, below_since, last_scale_time, containers,
                 <<RunCall("scale_out", FALSE)>>, TRUE)

\* lines 120-130 and 132-141; a is above_since as the scale-out band left it
remove_branch(site, target, a, now, dock_ok) ==
    IF dock_ok
    THEN Outcome(None, None, now, remove_container(containers, target),
                 <<RemoveCall(site, TRUE, containers, target)>>, TRUE)
    ELSE Outcome(a, below_since, last_scale_time, containers,
                 <<RemoveCall(site, FALSE, containers, target)>>, TRUE)

\* lines 115-148
scale_in_band(a, now, raw100, dock_ok) ==
    LET count == Len(containers)
        keep == Outcome(a, below_since, last_scale_time, containers, <<>>, TRUE)
    IN  IF below_half_threshold(raw100, count)
        THEN IF below_since = None
             THEN Outcome(a, now, last_scale_time, containers, <<>>, TRUE)
             ELSE IF scale_in_due(now, count)
             THEN IF ~is_fixed(containers[scale_in_target(containers)])
                  THEN remove_branch("scale_in", scale_in_target(containers),
                                     a, now, dock_ok)
                  ELSE keep
             ELSE IF fast_scale_in_due(now, containers)
             THEN remove_branch("fast_scale_in", fast_scale_in_target(containers),
                                a, now, dock_ok)
             ELSE keep
        ELSE Outcome(a, None, last_scale_time, containers, <<>>, TRUE)

\* the scale-out band with lines 109-112 left out: above_since outlives the band
scale_out_band_keeps(now, raw100, dock_ok) ==
    LET count == Len(containers)
    IN  IF above_threshold(raw100, count)
        THEN IF above_since = None
             THEN scale_in_band(now, now, raw100, dock_ok)
             ELSE IF scale_out_due(now, count)
             THEN scale_out_branch(now, dock_ok)
             ELSE scale_in_band(above_since, now, raw100, dock_ok)
        ELSE scale_in_band(above_since, now, raw100, dock_ok)

\* lines 96-112, then on to the scale-in band
scale_out_band(now, raw100, dock_ok) ==
    LET count == Len(containers)
    IN  IF above_threshold(raw100, count)
        THEN IF above_since = None
             THEN scale_in_band(now, now, raw100, dock_ok)
             ELSE IF scale_out_due(now, count)
             THEN scale_out_branch(now, dock_ok)
             ELSE scale_in_band(above_since, now, raw100, dock_ok)
        ELSE scale_in_band(None, now, raw100, dock_ok)

\* scale with the return of line 57 missing: the floor branch runs on
scale_floor_falls_through(now, now2, metric, dock_ok) ==
    LET count == Len(containers)
        nothing(fetched) ==
            Outcome(above_since, below_since, last_scale_time, containers,
                    <<>>, fetched)
        rest == IF in_cooldown(now) THEN nothing(FALSE)
                ELSE IF metric = FetchFailed THEN nothing(TRUE)
                ELSE scale_out_band(now2, metric, dock_ok)
        f == floor_branch(now, dock_ok)
    IN  IF below_minimum(count)
        THEN Outcome(rest.above_since, rest.below_since, f.last_scale_time,
                     f.containers, f.calls \o rest.calls, rest.fetched)
        ELSE rest

\* scale with the cooldown test of line 60 placed before the floor test of line 48
scale_cooldown_first(now, now2, metric, dock_ok) ==
    LET count == Len(containers)
        nothing(fetched) ==
            Outcome(above_since, below_since, last_scale_time, containers,
                    <<>>, fetched)
    IN  IF in_cooldown(now) THEN nothing(FALSE)
        ELSE IF below_minimum(count) THEN floor_branch(now, dock_ok)
        ELSE IF metric = FetchFailed THEN nothing(TRUE)
        ELSE scale_out_band(now2, metric, dock_ok)

\* scale with the except clause of lines 77-79 clearing the timers
scale_fetch_failure_resets(now, now2, metric, dock_ok) ==
    LET count == Len(containers)
        nothing(fetched) ==
            Outcome(above_since, below_since, last_scale_time, containers,
                    <<>>, fetched)
    IN  IF below_minimum(count) THEN floor_branch(now, dock_ok)
        ELSE IF in_cooldown(now) THEN nothing(FALSE)
        ELSE IF metric = FetchFailed
        THEN Outcome(None, None, last_scale_time, containers, <<>>, TRUE)
        ELSE scale_out_band(now2, metric, dock_ok)

\* lines 42-148: now is time.time() at line 46, now2 at line 93; metric is what
\* get_metric returns (100 * raw), or FetchFailed when it raises
scale(now, now2, metric, dock_ok) ==
    LET count == Len(containers)
        nothing(fetched) ==
            Outcome(above_since, below_since, last_scale_time, containers,
                    <<>>, fetched)
    IN  IF below_minimum(count) THEN floor_branch(now, dock_ok)
        ELSE IF in_cooldown(now) THEN nothing(FALSE)
        ELSE IF metric = FetchFailed THEN nothing(TRUE)
        ELSE scale_out_band(now2, metric, dock_ok)

----------------------------------------------------------------------------
(* Load balancer: bounds and inputs *)

MaxWorkers == 2
MaxLbClock == 900
LbStartClock == 600
MaxSleeps == 1                    \* 30 s sleeps in a row that the model follows

MaxSelWorkers == 3                \* workers of a published set, where the prober
                                  \* is left out and only the set it publishes kept
MaxHandlers == 2                  \* concurrent callers of choose_backend
MaxTriggers == 2                  \* calls of trigger_server_refresh told apart
MaxProberWorkers == 1             \* containers on the network where only the
                                  \* prober loop is followed

Workers == 1..MaxWorkers          \* the containers docker may list, by host
SelWorkers == 1..MaxSelWorkers
Handlers == 1..MaxHandlers
ProberWorkers == 1..MaxProberWorkers
Latencies == {5, 50}              \* round(end - start, 3), in milliseconds
ProbeFailures == {"non200", "timeout", "connection_error", "exception"}
\* how a /health probe ends: HTTP 200 after so many milliseconds, or a failure
ProbeResults ==
    [outcome : {"200"}, latency : Latencies]
        \cup [outcome : ProbeFailures, latency : {0}]
RequestedModes ==
    {"round_robin", "latency", "least_connections", "weighted", "random"}

(* Program constants *)
Inf == 1000000
GRACE_PERIOD == 600
PROBER_TIMEOUT == 300
NO_SERVERS_SLEEP == 30
MAX_RETRIES == 2
SERVER_ROUNDS == 5
RESELECT_ROUNDS == 2

NoServer == [host |-> 0, status |-> "none", latency |-> 0]

----------------------------------------------------------------------------
(* balancer.py *)

\* lines 12-13 left out: the cursor is carried over as it is
update_current_index_kept(new_list) == current_index

update_current_index(new_list) ==
    IF current_index >= Len(new_list) THEN 0 ELSE current_index

IsHealthy(server) == server.status = "healthy"

healthy_servers_of(servers) == SelectSeq(servers, IsHealthy)

\* line 28 returning the first healthy server, whatever its latency
min_latency_first(hs) == hs[1]

\* min(healthy_servers, key=latency): the first server of least latency
min_latency(hs) ==
    hs[CHOOSE i \in 1..Len(hs) :
          /\ \A j \in 1..Len(hs) : hs[i].latency <= hs[j].latency
          /\ \A j \in 1..(i - 1) : hs[j].latency > hs[i].latency]

round_robin_pick(hs, index) == hs[(index % Len(hs)) + 1]

\* line 25 without the step forward
round_robin_next_stuck(hs, index) == index % Len(hs)

round_robin_next(hs, index) == (index + 1) % Len(hs)

\* choose_backend with the cursor at index: the server returned (NoServer for
\* None), the cursor afterwards, and whether ValueError was raised
choose_backend(servers, index, mode) ==
    LET hs == healthy_servers_of(servers)
    IN  IF Len(hs) = 0
        THEN [server |-> NoServer, index |-> index, raised |-> FALSE]
        ELSE IF mode = "round_robin"
        THEN [server |-> round_robin_pick(hs, index),
              index |-> round_robin_next(hs, index), raised |-> FALSE]
        ELSE IF mode = "latency"
        THEN [server |-> min_latency(hs), index |-> index, raised |-> FALSE]
        ELSE [server |-> NoServer, index |-> index, raised |-> TRUE]

----------------------------------------------------------------------------
(* health_check.py: one iteration of the loop of check_servers *)

RECURSIVE SortedSeq(_)
SortedSeq(S) ==
    IF S = {} THEN <<>>
    ELSE LET m == CHOOSE x \in S : \A y \in S : x <= y
         IN  <<m>> \o SortedSeq(S \ {m})

\* lines 30-51: one descriptor per container found on the network
discovered(found) ==
    LET hosts == SortedSeq(found)
    IN  [i \in 1..Len(hosts) |->
            [host |-> hosts[i], status |-> "unknown", latency |-> Inf]]

\* lines 65-97: the descriptor after its /health probe
probed(server, probe) ==
    IF probe.outcome = "200"
    THEN [server EXCEPT !.status = "healthy", !.latency = probe.latency]
    ELSE [server EXCEPT !.status = "healthy", !.latency = Inf]

\* line 72
recorded_success(successes, found, probes, now) ==
    [w \in Workers |->
        IF w \in found /\ probes[w].outcome = "200" THEN now ELSE successes[w]]

\* lines 99-105: the grace period, applied to the server the loop ended on
grace(servers, successes, now) ==
    LET server == servers[Len(servers)]
    IN  IF now - successes[server.host] < GRACE_PERIOD /\ server.status = "unhealthy"
        THEN [servers EXCEPT ![Len(servers)] =
                 [server EXCEPT !.status = "healthy", !.latency = Inf]]
        ELSE servers

\* lines 21-123: what the iteration publishes, if anything
check_servers_pass(docker_ok, found, probes, now) ==
    LET servers == discovered(found)
        after == [i \in 1..Len(servers) |->
                     probed(servers[i], probes[servers[i].host])]
        successes == recorded_success(server_last_success, found, probes, now)
    IN  IF ~docker_ok
        THEN [published |-> TRUE, servers |-> <<>>, probed |-> {},
              successes |-> server_last_success, next |-> "wait"]
        ELSE IF Len(servers) = 0
        THEN [published |-> FALSE, servers |-> <<>>, probed |-> {},
              successes |-> server_last_success, next |-> "sleep"]
        ELSE [published |-> TRUE, servers |-> grace(after, successes, now),
              probed |-> found, successes |-> successes, next |-> "wait"]

----------------------------------------------------------------------------
(* server.py *)

\* the attempt at which a worker answers a forward: never, at the first, at
\* the last
AnswerAt == {0, 1, MAX_RETRIES + 1}

\* forward_request called with max_retries=0: one attempt and no more
forward_request_once(host, behaviour) ==
    IF behaviour[host] = 1
    THEN [answered |-> TRUE, attempts |-> 1]
    ELSE [answered |-> FALSE, attempts |-> 1]

\* forward_request: behaviour[w] is the attempt at which worker w answers, 0 if
\* it never does; the result is the number of attempts made and whether a
\* response came back
forward_request(host, behaviour) ==
    IF behaviour[host] \in 1..(MAX_RETRIES + 1)
    THEN [answered |-> TRUE, attempts |-> behaviour[host]]
    ELSE [answered |-> FALSE, attempts |-> MAX_RETRIES + 1]

\* lines 80-111: the loop over retry, entered with server chosen and the
\* cursor at index; tried lists the workers forwarded to so far
\* the list choose_backend reads at the re-selection of round retry, when the
\* prober publishes [] (lines 118-123 of health_check.py) during the request,
\* just before the re-selection of round cut; NoCut: no publish in between
NoCut == SERVER_ROUNDS
servers_at(retry, cut) == IF retry >= cut THEN <<>> ELSE backend_servers
index_at(retry, cut, index) == IF retry >= cut THEN 0 ELSE index

\* selections counts the workers choose_backend has returned for this request
RECURSIVE forward_loop(_, _, _, _, _, _, _, _)
forward_loop(retry, server, index, behaviour, tried, attempts, selections, cut) ==
    IF retry >= SERVER_ROUNDS
    THEN [status |-> 502, tried |-> tried, attempts |-> attempts, index |-> index,
          selections |-> selections, reselect_none |-> FALSE]
    ELSE LET f == forward_request(server.host, behaviour)
             tried2 == Append(tried, server.host)
             attempts2 == attempts + f.attempts
         IN  IF f.answered
             THEN [status |-> 200, tried |-> tried2, attempts |-> attempts2,
                   index |-> index, selections |-> selections,
                   reselect_none |-> FALSE]
             ELSE IF retry < RESELECT_ROUNDS
             THEN LET c == choose_backend(servers_at(retry, cut),
                                          index_at(retry, cut, index),
                                          selection_mode)
                  IN  IF c.raised
                      THEN [status |-> 500, tried |-> tried2,
                            attempts |-> attempts2, index |-> c.index,
                            selections |-> selections, reselect_none |-> FALSE]
                      ELSE IF c.server = NoServer
                      THEN [status |-> 502, tried |-> tried2,
                            attempts |-> attempts2, index |-> c.index,
                            selections |-> selections, reselect_none |-> TRUE]
                      ELSE forward_loop(retry + 1, c.server, c.index, behaviour,
                                        tried2, attempts2, selections + 1, cut)
             ELSE forward_loop(retry + 1, server, index, behaviour,
                               tried2, attempts2, selections, cut)

\* lines 61-111
route_request_during(behaviour, cut) ==
    LET c == choose_backend(backend_servers, current_index, selection_mode)
    IN  IF c.raised
        THEN [status |-> 500, tried |-> <<>>, attempts |-> 0, index |-> c.index,
              selections |-> 0, reselect_none |-> FALSE]
        ELSE IF c.server = NoServer
        THEN [status |-> 503, tried |-> <<>>, attempts |-> 0, index |-> c.index,
              selections |-> 0, reselect_none |-> FALSE]
        ELSE forward_loop(0, c.server, c.index, behaviour, <<>>, 0, 1, cut)

\* a request during which nothing is published
route_request_result(behaviour) == route_request_during(behaviour, NoCut)

valid_modes == {"round_robin", "latency", "least_connections", "weighted"}

\* cpu_toggle_proxy, lines 113-126: one call of choose_backend, then one POST
cpu_toggle_proxy_result(answers) ==
    LET c == choose_backend(backend_servers, current_index, selection_mode)
    IN  [status |-> IF c.raised THEN 500
                    ELSE IF c.server = NoServer THEN 503
                    ELSE IF answers THEN 200 ELSE 500,
         host |-> c.server.host, at |-> current_index, index |-> c.index,
         raised |-> c.raised]

----------------------------------------------------------------------------
(* The load balancer as a state machine *)

NoPass == [n |-> 0, now |-> 0, published |-> FALSE, found |-> {}, docker_ok |-> TRUE]
\* raised: calls of trigger_server_refresh since the event was last cleared
\* (MaxTriggers stands for that many or more); pending: one was made and no
\* iteration of check_servers has started since; woken: how many the latest
\* clear consumed, until the iteration it leads to
NoSignal == [raised |-> 0, pending |-> FALSE, woken |-> 0]
NoResponse ==
    [status |-> 0, tried |-> <<>>, attempts |-> 0, selections |-> 0, dead |-> {},
     reselect_none |-> FALSE]
IdleHandler == [pc |-> "idle", hs |-> <<>>, at |-> None, server |-> 0, loaded |-> None]
NoHandlers == [h \in Handlers |-> IdleHandler]

\* lines 21-125
check_servers_iteration_of(hosts) ==
    /\ prober_pc = "check"
    /\ \E docker_ok \in BOOLEAN, found \in SUBSET hosts :
        \E probes \in [(IF docker_ok THEN found ELSE {}) -> ProbeResults] :
        \E r \in {check_servers_pass(docker_ok, found, probes, lb_clock)} :
            /\ backend_servers' = IF r.published THEN r.servers ELSE backend_servers
            /\ current_index' = IF r.published
                                THEN update_current_index(r.servers)
                                ELSE current_index
            /\ server_last_success' = r.successes
            /\ last_probe' = [w \in Workers |->
                                 IF w \in r.probed
                                 THEN (IF probes[w].outcome = "200"
                                       THEN "200" ELSE "failed")
                                 ELSE last_probe[w]]
            /\ pass' = [n |-> 1, now |-> lb_clock, published |-> r.published,
                        found |-> IF docker_ok THEN found ELSE {},
                        docker_ok |-> docker_ok]
            /\ prober_pc' = r.next
    /\ response' = NoResponse
    /\ signal' = [signal EXCEPT !.pending = FALSE, !.woken = 0]
    /\ UNCHANGED <<selection_mode, immediate_check_event, lb_clock>>
    /\ UNCHANGED as_vars
    /\ UNCHANGED sel_vars

check_servers_iteration == check_servers_iteration_of(Workers)

\* the model follows the 30 s sleep up to MaxLbClock, MaxSleeps in a row
can_sleep ==
    /\ lb_clock + NO_SERVERS_SLEEP <= MaxLbClock
    /\ (lb_clock - LbStartClock) % PROBER_TIMEOUT < MaxSleeps * NO_SERVERS_SLEEP

\* line 55
no_servers_sleep ==
    /\ prober_pc = "sleep"
    /\ can_sleep
    /\ lb_clock' = lb_clock + NO_SERVERS_SLEEP
    /\ prober_pc' = "check"
    /\ UNCHANGED <<backend_servers, current_index, selection_mode,
                   server_last_success, immediate_check_event, signal, last_probe,
                   pass, response>>
    /\ UNCHANGED as_vars
    /\ UNCHANGED sel_vars

\* line 127: wait returns True because the event is set
wait_signalled ==
    /\ prober_pc = "wait"
    /\ immediate_check_event
    /\ prober_pc' = "clear"
    /\ UNCHANGED <<backend_servers, current_index, selection_mode,
                   server_last_success, immediate_check_event, signal, lb_clock,
                   last_probe, pass, response>>
    /\ UNCHANGED as_vars
    /\ UNCHANGED sel_vars

\* line 128 with the clear left out: the event stays set
clear_signal_skipped ==
    /\ prober_pc = "clear"
    /\ immediate_check_event' = immediate_check_event
    /\ signal' = [signal EXCEPT !.raised = 0, !.woken = signal.raised]
    /\ prober_pc' = "check"
    /\ UNCHANGED <<backend_servers, current_index, selection_mode,
                   server_last_success, lb_clock, last_probe, pass, response>>
    /\ UNCHANGED as_vars
    /\ UNCHANGED sel_vars

\* lines 128-130: the event is cleared, whatever was raised up to here, and
\* the loop starts over
clear_signal ==
    /\ prober_pc = "clear"
    /\ immediate_check_event' = FALSE
    /\ signal' = [signal EXCEPT !.raised = 0, !.woken = signal.raised]
    /\ prober_pc' = "check"
    /\ UNCHANGED <<backend_servers, current_index, selection_mode,
                   server_last_success, lb_clock, last_probe, pass, response>>
    /\ UNCHANGED as_vars
    /\ UNCHANGED sel_vars

\* lines 127, 131-132
wait_timed_out ==
    /\ prober_pc = "wait"
    /\ ~immediate_check_event
    /\ lb_clock + PROBER_TIMEOUT <= MaxLbClock
    /\ lb_clock' = lb_clock + PROBER_TIMEOUT
    /\ prober_pc' = "check"
    /\ UNCHANGED <<backend_servers, current_index, selection_mode,
                   server_last_success, immediate_check_event, signal, last_probe,
                   pass, response>>
    /\ UNCHANGED as_vars
    /\ UNCHANGED sel_vars

\* lines 134-135
trigger_server_refresh ==
    /\ immediate_check_event' = TRUE
    /\ signal' = [signal EXCEPT !.raised = IF @ < MaxTriggers THEN @ + 1 ELSE @,
                                !.pending = TRUE]
    /\ UNCHANGED <<backend_servers, current_index, selection_mode,
                   server_last_success, prober_pc, lb_clock, last_probe,
                   pass, response>>
    /\ UNCHANGED as_vars
    /\ UNCHANGED sel_vars

\* server.py lines 60-111
route_request_of(hosts) ==
    /\ \E behaviour \in [hosts -> AnswerAt] :
        \E r \in {route_request_result(behaviour)} :
            /\ current_index' = r.index
            /\ response' = [status |-> r.status, tried |-> r.tried,
                            attempts |-> r.attempts, selections |-> r.selections,
                            dead |-> {w \in hosts : behaviour[w] = 0},
                            reselect_none |-> r.reselect_none]
    /\ picks' = <<>>
    /\ UNCHANGED <<backend_servers, selection_mode, server_last_success,
                   immediate_check_event, prober_pc, signal, lb_clock, last_probe, pass,
                   handlers>>
    /\ UNCHANGED as_vars

route_request == route_request_of(Workers)

\* server.py lines 128-149
set_mode ==
    /\ \E mode \in RequestedModes :
        selection_mode' = IF mode \in valid_modes THEN mode ELSE selection_mode
    /\ picks' = <<>>
    /\ response' = NoResponse
    /\ UNCHANGED <<backend_servers, current_index, server_last_success,
                   immediate_check_event, prober_pc, signal, lb_clock, last_probe,
                   pass, handlers>>
    /\ UNCHANGED as_vars

----------------------------------------------------------------------------
(* Selection and routing over a published set: the prober is reduced to the  *)
(* lists it hands to update_backend_servers                                  *)

\* the list check_servers builds for the containers found (lines 30-105, with
\* no success on record), or [] when the runtime raised (lines 118-123)
published_list(found, probes) ==
    LET servers == discovered(found)
    IN  [i \in 1..Len(servers) |-> probed(servers[i], probes[servers[i].host])]

\* the probe results that make different lists: every failure leaves the
\* same descriptor
SelProbeResults ==
    {p \in ProbeResults : p.outcome \in {"200", "timeout"}}

\* balancer.py lines 9-13, called with such a list
publish_of(founds) ==
    /\ \E found \in founds :
        \E probes \in [found -> SelProbeResults] :
        \E new_list \in {published_list(found, probes)} :
            /\ backend_servers' = new_list
            /\ current_index' = update_current_index(new_list)
    /\ picks' = <<>>
    /\ response' = NoResponse
    /\ UNCHANGED <<selection_mode, server_last_success, immediate_check_event,
                   prober_pc, signal, lb_clock, last_probe, pass, handlers>>
    /\ UNCHANGED as_vars

\* the containers found: the first n of SelWorkers (selection goes by position
\* in the list, not by host)
SelFound == {1..n : n \in 0..MaxSelWorkers}

update_backend_servers == publish_of(SelFound)

\* the latest picks, as many as a published set has workers at most
latest_picks(ps) ==
    IF Len(ps) > MaxSelWorkers THEN Tail(ps) ELSE ps

\* server.py lines 113-126
cpu_toggle_proxy ==
    /\ \E answers \in BOOLEAN :
        \E r \in {cpu_toggle_proxy_result(answers)} :
            /\ current_index' = r.index
            /\ picks' = latest_picks(Append(picks,
                            [host |-> r.host, at |-> r.at, status |-> r.status]))
    /\ response' = NoResponse
    /\ UNCHANGED <<backend_servers, selection_mode, server_last_success,
                   immediate_check_event, prober_pc, signal, lb_clock, last_probe, pass,
                   handlers>>
    /\ UNCHANGED as_vars

\* a /load request; what a worker outside the published set would answer
\* plays no part
load_request ==
    route_request_of({backend_servers[i].host : i \in 1..Len(backend_servers)})

\* a /load request with a publish of [] by the prober falling between its
\* first selection and one of its re-selections (server.py lines 60-111
\* interleaved with balancer.py lines 9-13)
load_request_during_publish ==
    /\ \E behaviour \in [{backend_servers[i].host : i \in 1..Len(backend_servers)}
                            -> AnswerAt],
          cut \in 0..(RESELECT_ROUNDS - 1) :
        \E r \in {route_request_during(behaviour, cut)} :
            /\ r.reselect_none
            /\ backend_servers' = <<>>
            /\ current_index' = r.index
            /\ response' = [status |-> r.status, tried |-> r.tried,
                            attempts |-> r.attempts, selections |-> r.selections,
                            dead |-> {w \in DOMAIN behaviour : behaviour[w] = 0},
                            reselect_none |-> r.reselect_none]
    /\ picks' = <<>>
    /\ UNCHANGED <<selection_mode, server_last_success, immediate_check_event,
                   prober_pc, signal, lb_clock, last_probe, pass, handlers>>
    /\ UNCHANGED as_vars

\* /load requests, with the prober publishing between them and during them
RouteNext ==
    \/ update_backend_servers
    \/ load_request
    \/ load_request_during_publish
    \/ set_mode

SelNext ==
    \/ update_backend_servers
    \/ cpu_toggle_proxy
    \/ load_request
    \/ set_mode

----------------------------------------------------------------------------
(* choose_backend run by concurrent request handlers (app.run(threaded=True)) *)
(* under round_robin: balancer.py takes no lock, so the reads and the write   *)
(* of current_index in lines 24-25 are separate steps of each caller          *)

hosts_of(servers) == [i \in 1..Len(servers) |-> servers[i].host]

\* lines 18-23: the caller's healthy_servers, by host
choose_snapshot(h) ==
    /\ handlers[h].pc = "idle"
    /\ selection_mode = "round_robin"
    /\ LET hs == hosts_of(healthy_servers_of(backend_servers))
       IN  handlers' = [handlers EXCEPT ![h] =
               IF Len(hs) = 0
               THEN [@ EXCEPT !.pc = "done"]
               ELSE [@ EXCEPT !.pc = "line24", !.hs = hs]]
    /\ UNCHANGED <<lb_vars, picks>>
    /\ UNCHANGED as_vars

\* line 24
choose_pick(h) ==
    /\ handlers[h].pc = "line24"
    /\ handlers' = [handlers EXCEPT ![h] =
           [@ EXCEPT !.pc = "line25", !.at = current_index,
                     !.server = round_robin_pick(handlers[h].hs, current_index)]]
    /\ UNCHANGED <<lb_vars, picks>>
    /\ UNCHANGED as_vars

\* line 25, the read of current_index
choose_load(h) ==
    /\ handlers[h].pc = "line25"
    /\ handlers' = [handlers EXCEPT ![h] =
           [@ EXCEPT !.pc = "store", !.loaded = current_index]]
    /\ UNCHANGED <<lb_vars, picks>>
    /\ UNCHANGED as_vars

\* line 25, the write of current_index; line 26
choose_store(h) ==
    /\ handlers[h].pc = "store"
    /\ current_index' = round_robin_next(handlers[h].hs, handlers[h].loaded)
    /\ handlers' = [handlers EXCEPT ![h] = [@ EXCEPT !.pc = "done"]]
    /\ UNCHANGED <<backend_servers, selection_mode, server_last_success,
                   immediate_check_event, prober_pc, signal, lb_clock, last_probe, pass,
                   response, picks>>
    /\ UNCHANGED as_vars

\* the prober publishing again for the same containers, with fresh probe
\* results (current_index < len holds, so lines 12-13 write nothing)
republish ==
    publish_of({{backend_servers[i].host : i \in 1..Len(backend_servers)}})

ConcNext ==
    \/ \E h \in Handlers : choose_snapshot(h)
    \/ \E h \in Handlers : choose_pick(h)
    \/ \E h \in Handlers : choose_load(h)
    \/ \E h \in Handlers : choose_store(h)
    \/ republish

\* an iteration with at most MaxProberWorkers containers on the network
prober_iteration == check_servers_iteration_of(ProberWorkers)

\* the prober thread and the callers of trigger_server_refresh
ProberNext ==
    \/ prober_iteration
    \/ no_servers_sleep
    \/ wait_signalled
    \/ clear_signal
    \/ wait_timed_out
    \/ trigger_server_refresh

LBNext ==
    \/ check_servers_iteration
    \/ no_servers_sleep
    \/ wait_signalled
    \/ clear_signal
    \/ wait_timed_out
    \/ trigger_server_refresh
    \/ route_request
    \/ set_mode

----------------------------------------------------------------------------
(* The autoscaler as a state machine: scale() is called again and again *)

NoTick ==
    [ticked |-> FALSE, count |-> 0, now1 |-> 0, now |-> 0, band |-> "none",
     pre_above |-> None, pre_last |-> None,
     calls |-> <<>>, fetched |-> FALSE]

\* the CPU load is not held constant
NoSteady == [cpu |-> None, restored |-> <<>>]

Fleets == UNION {[1..n -> [fixed : BOOLEAN]] : n \in 0..MaxFleet}

ASInit ==
    /\ containers \in Fleets
    /\ above_since = None
    /\ below_since = None
    /\ last_scale_time = None
    /\ min_instances \in 0..2
    /\ max_instances \in 2..3
    /\ clock = StartClock
    /\ count0 = Len(containers)
    /\ tick = NoTick
    /\ steady = NoSteady
    \* the load balancer as loaded, idle
    /\ backend_servers = <<>>
    /\ current_index = 0
    /\ selection_mode = "round_robin"
    /\ server_last_success = [w \in Workers |-> 0]
    /\ immediate_check_event = FALSE
    /\ signal = NoSignal
    /\ prober_pc = "check"
    /\ lb_clock = LbStartClock
    /\ last_probe = [w \in Workers |-> "none"]
    /\ pass = NoPass
    /\ response = NoResponse
    /\ picks = <<>>
    /\ handlers = NoHandlers

\* one iteration of run(): scale() under a metrics answer drawn from metrics
tick_step(metrics) ==
    \E gap \in TickGaps, delay \in FetchDelays,
       metric \in metrics, dock_ok \in BOOLEAN :
        LET now == clock + gap
            now2 == now + delay
        IN  \E r \in {scale(now, now2, metric, dock_ok)} :
            /\ now2 <= MaxClock
            /\ containers' = r.containers
            /\ above_since' = r.above_since
            /\ below_since' = r.below_since
            /\ last_scale_time' = r.last_scale_time
            /\ clock' = IF r.fetched THEN now2 ELSE now
            /\ tick' = [ticked |-> TRUE, count |-> Len(containers),
                        now1 |-> now,
                        now |-> IF r.fetched /\ metric # FetchFailed
                                THEN now2 ELSE now,
                        pre_above |-> above_since,
                        pre_last |-> last_scale_time,
                        band |-> IF r.fetched /\ metric # FetchFailed
                                 THEN band(metric, Len(containers))
                                 ELSE "none",
                        calls |-> r.calls, fetched |-> r.fetched]
            /\ UNCHANGED <<min_instances, max_instances, count0>>
            /\ UNCHANGED lb_vars
            /\ UNCHANGED sel_vars

Tick ==
    /\ tick_step(RawLoads \cup {FetchFailed})
    /\ UNCHANGED steady

ASNext == Tick

\* the autoscaler as constructed, under a CPU load that stays what it is
SteadyInit ==
    /\ containers \in Fleets
    /\ above_since = None
    /\ below_since = None
    /\ last_scale_time = None
    /\ min_instances \in 0..2
    /\ max_instances \in 2..3
    /\ clock = StartClock
    /\ count0 = Len(containers)
    /\ tick = NoTick
    /\ steady \in [cpu : RawLoads, restored : {<<>>}]
    /\ backend_servers = <<>>
    /\ current_index = 0
    /\ selection_mode = "round_robin"
    /\ server_last_success = [w \in Workers |-> 0]
    /\ immediate_check_event = FALSE
    /\ signal = NoSignal
    /\ prober_pc = "check"
    /\ lb_clock = LbStartClock
    /\ last_probe = [w \in Workers |-> "none"]
    /\ pass = NoPass
    /\ response = NoResponse
    /\ picks = <<>>
    /\ handlers = NoHandlers

\* the tick removed a container / started one in the floor branch
removed(t) == \E i \in 1..Len(t.calls) : t.calls[i].op = "remove" /\ t.calls[i].ok
floor_started(t) ==
    \E i \in 1..Len(t.calls) :
        t.calls[i].op = "run" /\ t.calls[i].site = "floor" /\ t.calls[i].ok

\* one iteration of run() with every metrics query answering steady.cpu
steady_tick ==
    /\ tick_step({steady.cpu})
    /\ steady' = IF removed(tick) /\ floor_started(tick')
                 THEN [steady EXCEPT !.restored = Append(@, containers')]
                 ELSE steady

SteadyNext == steady_tick


----------------------------------------------------------------------------
(* Specifications *)

vars == <<as_vars, lb_vars, sel_vars>>

SpecAS == ASInit /\ [][ASNext]_vars

SpecSteady == SteadyInit /\ [][SteadyNext]_vars

\* the load balancer as loaded; the autoscaler as constructed, idle
LBInit ==
    /\ backend_servers = <<>>
    /\ current_index = 0
    /\ selection_mode = "round_robin"
    /\ server_last_success = [w \in Workers |-> 0]
    /\ immediate_check_event = FALSE
    /\ signal = NoSignal
    /\ prober_pc = "check"
    /\ lb_clock = LbStartClock
    /\ last_probe = [w \in Workers |-> "none"]
    /\ pass = NoPass
    /\ response = NoResponse
    /\ picks = <<>>
    /\ handlers = NoHandlers
    /\ containers = <<>>
    /\ above_since = None
    /\ below_since = None
    /\ last_scale_time = None
    /\ min_instances = 0
    /\ max_instances = MaxFleet
    /\ clock = StartClock
    /\ count0 = 0
    /\ tick = NoTick
    /\ steady = NoSteady

SpecLB == LBInit /\ [][LBNext]_vars

\* the prober alone: a daemon thread that keeps running (start_health_check),
\* with trigger_server_refresh called from outside at any time
SpecProber ==
    /\ LBInit
    /\ [][ProberNext]_vars
    /\ WF_vars(prober_iteration)
    /\ WF_vars(no_servers_sleep)
    /\ WF_vars(wait_signalled)
    /\ WF_vars(clear_signal)
    /\ WF_vars(wait_timed_out)

\* the load balancer as loaded, with the prober reduced to its publishes
SelInit ==
    /\ backend_servers = <<>>
    /\ current_index = 0
    /\ selection_mode = "round_robin"
    /\ server_last_success = [w \in Workers |-> 0]
    /\ immediate_check_event = FALSE
    /\ signal = NoSignal
    /\ prober_pc = "check"
    /\ lb_clock = LbStartClock
    /\ last_probe = [w \in Workers |-> "none"]
    /\ pass = NoPass
    /\ response = NoResponse
    /\ picks = <<>>
    /\ handlers = NoHandlers
    /\ containers = <<>>
    /\ above_since = None
    /\ below_since = None
    /\ last_scale_time = None
    /\ min_instances = 0
    /\ max_instances = MaxFleet
    /\ clock = StartClock
    /\ count0 = 0
    /\ tick = NoTick
    /\ steady = NoSteady

SpecSel == SelInit /\ [][SelNext]_vars

SpecRoute == SelInit /\ [][RouteNext]_vars

\* a set of 1..MaxSelWorkers workers published, all answering their probes,
\* the cursor anywhere in it, and the request handlers about to call
\* choose_backend
ConcInit ==
    /\ \E n \in 1..MaxSelWorkers :
          /\ backend_servers =
                published_list(1..n, [w \in 1..n |-> [outcome |-> "200", latency |-> 5]])
          /\ current_index \in 0..(n - 1)
    /\ selection_mode = "round_robin"
    /\ server_last_success = [w \in Workers |-> 0]
    /\ immediate_check_event = FALSE
    /\ signal = NoSignal
    /\ prober_pc = "wait"
    /\ lb_clock = LbStartClock
    /\ last_probe = [w \in Workers |-> "none"]
    /\ pass = NoPass
    /\ response = NoResponse
    /\ picks = <<>>
    /\ handlers = NoHandlers
    /\ containers = <<>>
    /\ above_since = None
    /\ below_since = None
    /\ last_scale_time = None
    /\ min_instances = 0
    /\ max_instances = MaxFleet
    /\ clock = StartClock
    /\ count0 = 0
    /\ tick = NoTick
    /\ steady = NoSteady

SpecConc == ConcInit /\ [][ConcNext]_vars

----------------------------------------------------------------------------
(* Properties of the autoscaler, checked under SpecAS *)

Calls == {tick.calls[i] : i \in 1..Len(tick.calls)}
Performed == {c \in Calls : c.ok}

\* C1: no scale-in removal is performed in a tick whose snapshot has
\* count <= min_instances, so a fleet that starts with at least min_instances
\* containers never drops below min_instances.
C1_NoScaleInAtFloor ==
    /\ \A c \in Performed : c.op = "remove" => tick.count > min_instances
    /\ count0 >= min_instances => Len(containers) >= min_instances

\* C2: a scale-out run_container is called only in a tick that saw the CPU
\* above the threshold, with above_since set by an earlier tick at least
\* 180 s before and count < max_instances; a fleet that starts with at most
\* max_instances containers never exceeds max_instances.
C2_ScaleOutGuarded ==
    /\ \A c \in Calls : c.site = "scale_out" =>
          /\ tick.band = "scale_out"
          /\ tick.pre_above # None
          /\ tick.now - tick.pre_above >= 180
          /\ tick.count < max_instances
    /\ count0 <= max_instances => Len(containers) <= max_instances

C2_Witness ==
    /\ \E c \in Performed : c.site = "scale_out"
    /\ Len(containers) = max_instances

\* C3: after a tick that performed a scale action (a run or a remove, at any
\* of the four places), above_since and below_since are unset and
\* last_scale_time is that tick's timestamp.
C3_ActionStamps ==
    Performed # {} =>
        /\ above_since = None
        /\ below_since = None
        /\ last_scale_time = tick.now

C3_Witness ==
    /\ \E c \in Performed : c.site = "fast_scale_in"
    /\ tick.pre_last # None
    /\ tick.now > tick.now1

\* C4: the container handed to remove_container is never a fixed one.
C4_NeverRemovesFixed ==
    \A c \in Calls : c.op = "remove" => ~c.target_fixed

C4_Witness ==
    /\ \E c \in Performed : c.op = "remove" /\ c.site = "fast_scale_in"
    /\ Len(containers) >= 1
    /\ is_fixed(containers[Len(containers)])

\* C5: one call of scale makes at most one run_container or remove_container
\* call.
C5_AtMostOneAction == Len(tick.calls) <= 1

C5_Witness ==
    /\ Len(tick.calls) = 1
    /\ tick.fetched
    /\ tick.pre_last # None

\* C6 as stated: a tick less than check_interval after the last scale action
\* fetches no metric and performs no scale action.
C6_CooldownBlocksEverything ==
    (/\ tick.ticked
     /\ tick.pre_last # None
     /\ tick.now1 - tick.pre_last < check_interval)
    => (~tick.fetched /\ Performed = {})

\* C6 as amended: a tick less than check_interval after the last scale action
\* whose snapshot has count >= min_instances fetches no metric and performs no
\* scale action (a tick with count < min_instances takes the floor branch).
C6_CooldownUnlessBelowFloor ==
    (/\ tick.ticked
     /\ tick.pre_last # None
     /\ tick.now1 - tick.pre_last < check_interval
     /\ tick.count >= min_instances)
    => (~tick.fetched /\ tick.calls = <<>>)

C6_Witness ==
    /\ tick.ticked
    /\ tick.pre_last # None
    /\ tick.now1 - tick.pre_last < check_interval
    /\ tick.count >= min_instances
    /\ ~tick.fetched
    /\ tick.calls = <<>>

\* C7: a tick whose snapshot has count < min_instances calls run_container
\* exactly once, at the floor branch, and fetches no metric, whether or not
\* last_scale_time is within check_interval of now; the fleet grows by one.
C7_FloorBypassesCooldown ==
    (tick.ticked /\ tick.count < min_instances) =>
        /\ Len(tick.calls) = 1
        /\ tick.calls[1].op = "run"
        /\ tick.calls[1].site = "floor"
        /\ ~tick.fetched
        /\ tick.calls[1].ok => Len(containers) = tick.count + 1

C7_Witness ==
    /\ tick.ticked
    /\ tick.count < min_instances
    /\ tick.pre_last # None
    /\ tick.now1 - tick.pre_last < check_interval
    /\ Performed # {}
    /\ Len(containers) = tick.count + 1

\* C17: between ticks at most one of above_since and below_since is set; a
\* tick that saw the CPU outside the scale-out band leaves above_since unset
\* and a tick that saw it outside the scale-in band leaves below_since unset.
C17_AtMostOneTimer ==
    /\ above_since = None \/ below_since = None
    /\ tick.band \in {"scale_in", "neither"} => above_since = None
    /\ tick.band \in {"scale_out", "neither"} => below_since = None

\* a scale-out timer was running and the tick saw the CPU in the scale-in band
C17_Witness ==
    /\ tick.band = "scale_in"
    /\ tick.pre_above # None
    /\ above_since = None
    /\ below_since = tick.now
    /\ tick.calls = <<>>

\* the tick just taken reached the metrics query and the query failed
FetchFailedTick == tick.ticked /\ tick.fetched /\ tick.band = "none"

\* C18: a tick whose metrics query fails makes no run or remove call and
\* leaves above_since, below_since, last_scale_time and the fleet as they were.
C18_FetchFailureKeepsTimers ==
    [][FetchFailedTick' =>
          /\ tick'.calls = <<>>
          /\ above_since' = above_since
          /\ below_since' = below_since
          /\ last_scale_time' = last_scale_time
          /\ containers' = containers]_vars

\* the query failed 150 s or more into a scale-out dwell, and the dwell stands
C18_Witness ==
    /\ FetchFailedTick
    /\ above_since # None
    /\ above_since = tick.pre_above
    /\ tick.now - above_since >= 150
    /\ last_scale_time = tick.pre_last

\* C19: a tick that sees the CPU above the threshold with count <
\* max_instances calls run_container exactly once if above_since was set at
\* least 180 s before, and then leaves above_since unset and last_scale_time
\* at the tick's time; it makes no call if the dwell is shorter, so the call
\* comes at the first tick with now - above_since >= 180 and at none before.
C19_ScaleOutAtFirstDueTick ==
    (tick.ticked /\ tick.band = "scale_out" /\ tick.count < max_instances) =>
        IF tick.pre_above # None /\ tick.now - tick.pre_above >= 180
        THEN /\ Len(tick.calls) = 1
             /\ tick.calls[1].op = "run"
             /\ tick.calls[1].site = "scale_out"
             /\ tick.calls[1].ok =>
                   /\ Len(containers) = tick.count + 1
                   /\ above_since = None
                   /\ last_scale_time = tick.now
        ELSE /\ tick.calls = <<>>
             /\ above_since = IF tick.pre_above = None THEN tick.now
                              ELSE tick.pre_above

\* the run at the tick exactly 180 s after the one that set above_since
C19_Witness ==
    /\ tick.band = "scale_out"
    /\ tick.pre_above # None
    /\ tick.now - tick.pre_above = 180
    /\ \E c \in Performed : c.site = "scale_out"
    /\ above_since = None
    /\ last_scale_time = tick.now

\* C20: a tick in the scale-in band with below_since set at least 15 s before
\* and a non-empty autoscaled subset, where the 60 s removal of the last
\* container does not apply (dwell below 60 s, or the last container fixed
\* with dwell >= 60 s and count > min_instances), calls remove_container on
\* the last autoscaled container; when the call succeeds the fleet is one
\* smaller, last_scale_time is the tick's time and both timers are unset.
C20_FastScaleInRemoves ==
    [][(/\ tick'.ticked
        /\ tick'.band = "scale_in"
        /\ tick' # tick
        /\ below_since # None
        /\ tick'.now - below_since >= 15
        /\ Len(autoscaled_containers(containers)) > 0
        /\ \/ tick'.now - below_since < 60
           \/ /\ Len(containers) > min_instances
              /\ is_fixed(containers[Len(containers)]))
       => /\ Len(tick'.calls) = 1
          /\ tick'.calls[1].op = "remove"
          /\ ~tick'.calls[1].target_fixed
          /\ tick'.calls[1].ok =>
                /\ Len(containers') = Len(containers) - 1
                /\ last_scale_time' = tick'.now
                /\ above_since' = None
                /\ below_since' = None]_vars

----------------------------------------------------------------------------
(* Properties of the load balancer, checked under SpecLB *)

Routable == healthy_servers_of(backend_servers)
RoutableHosts == {Routable[i].host : i \in 1..Len(Routable)}

\* a success of worker w recorded less than GRACE_PERIOD before the latest pass
InGrace(w) ==
    /\ server_last_success[w] > 0
    /\ pass.now - server_last_success[w] < GRACE_PERIOD

\* C8: after a prober pass, every worker choose_backend can return answered
\* its latest probe with 200 or failed it within the grace window of a
\* recorded success; a worker whose latest probe failed with no success in
\* the grace window is not routable.
C8_RoutableOnlyHealthyOrDegraded ==
    pass.n = 1 =>
        \A w \in RoutableHosts : last_probe[w] = "200" \/ InGrace(w)

\* C9: when workers were discovered and every one of them failed its latest
\* probe with no success in the grace window, a /load request after that
\* pass gets 503 and is forwarded to no worker.
C9_NoHealthyWorkerGives503 ==
    (/\ pass.n = 1
     /\ pass.found # {}
     /\ \A w \in pass.found : last_probe[w] = "failed" /\ ~InGrace(w)
     /\ response.status # 0)
    => (response.status = 503 /\ response.tried = <<>>)

\* C10: after a pass that discovered no workers the routable set is empty:
\* choose_backend returns none and /load gets 503.
C10_EmptyDiscoveryEmptiesRoutable ==
    (pass.n = 1 /\ pass.docker_ok /\ pass.found = {}) =>
        /\ choose_backend(backend_servers, current_index, selection_mode).server
              = NoServer
        /\ Len(Routable) = 0
        /\ response.status # 0 => response.status = 503

\* C22: an iteration of check_servers in which the container runtime raises
\* leaves the published set as it was, so that choose_backend returns the
\* same workers after it as before, and the loop goes on to its wait.
C22_RuntimeFailureKeepsPublishedSet ==
    [][(/\ prober_pc = "check"
        /\ prober_pc' # "check"
        /\ ~pass'.docker_ok)
       => /\ backend_servers' = backend_servers
          /\ healthy_servers_of(backend_servers') = healthy_servers_of(backend_servers)
          /\ prober_pc' = "wait"]_vars

----------------------------------------------------------------------------
(* Properties of selection and routing, checked under SpecSel *)

\* C11: whatever policy set_mode has stored, choose_backend on a non-empty
\* routable set returns a routable worker and does not raise (the stored
\* policy is one that choose_backend implements).
C11_AcceptedModeIsImplemented ==
    Len(Routable) > 0 =>
        /\ ~choose_backend(backend_servers, current_index, selection_mode).raised
        /\ choose_backend(backend_servers, current_index, selection_mode).server
              \in {Routable[i] : i \in 1..Len(Routable)}

\* C13: in a /load request every round of forward attempts goes to a worker
\* obtained from choose_backend for that round (no worker gets a second
\* round without a selection in between), and 502 after exhausted workers
\* comes only after 5 selections.
C13_SelectionBeforeEveryRound ==
    (response.status \in {200, 502} /\ response.tried # <<>>) =>
        /\ response.selections = Len(response.tried)
        /\ response.status = 502 => response.selections = 5

\* C14: under round_robin with 3 routable workers of which exactly one never
\* answers a forward and the other two do, a /load request ends with the
\* response of an answering worker and never with 502, wherever the cursor
\* stood when it started.
C14_OneDeadOfThreeNever502 ==
    (/\ response.status # 0
     /\ selection_mode = "round_robin"
     /\ Len(Routable) = 3
     /\ Cardinality(response.dead \cap RoutableHosts) = 1)
    => /\ response.status = 200
       /\ response.tried[Len(response.tried)] \notin response.dead

\* the request started on the dead worker and was answered by the next one
C14_Witness ==
    /\ response.status = 200
    /\ selection_mode = "round_robin"
    /\ Len(Routable) = 3
    /\ Cardinality(response.dead \cap RoutableHosts) = 1
    /\ Len(response.tried) = 2
    /\ response.tried[1] \in response.dead
    /\ response.tried[2] \notin response.dead

\* the hosts choose_backend returned to the latest callers
Selected ==
    {picks[i].host : i \in 1..Len(picks)}
        \cup {response.tried[i] : i \in 1..Len(response.tried)}

\* worker w has the least latency of the routable set and is the earliest
\* such worker in it
EarliestOfLeastLatency(w) ==
    \E i \in 1..Len(Routable) :
        /\ Routable[i].host = w
        /\ \A j \in 1..Len(Routable) : Routable[i].latency <= Routable[j].latency
        /\ \A j \in 1..(i - 1) : Routable[j].latency > Routable[i].latency

FailedLastProbe(w) ==
    \E i \in 1..Len(Routable) : Routable[i].host = w /\ Routable[i].latency = Inf

\* C15: under the latency policy every worker choose_backend returns has the
\* smallest latency of the routable set and is the earliest such worker; a
\* worker whose last probe failed (latency infinite) is returned only when
\* every routable worker's last probe failed.
C15_LatencyPicksEarliestMinimum ==
    selection_mode = "latency" =>
        \A w \in Selected \ {NoServer.host} :
            /\ EarliestOfLeastLatency(w)
            /\ FailedLastProbe(w) => \A v \in RoutableHosts : FailedLastProbe(v)

\* one degraded worker listed first, one healthy worker after it, and the
\* request went to the healthy one
C15_Witness ==
    /\ selection_mode = "latency"
    /\ Len(Routable) = 2
    /\ Routable[1].latency = Inf
    /\ Routable[2].latency < Inf
    /\ response.status = 200
    /\ response.tried = <<Routable[2].host>>

\* C16: under round_robin a call of choose_backend returns none when the
\* routable set is empty, and otherwise the worker at position (cursor mod n)
\* of the n routable workers, leaving the cursor one further (modulo n); so
\* any n calls in a row on an unchanged set return n different workers, and
\* the cursor is within 0..n-1 of the current set after any publish.
C16_RoundRobinCycles ==
    selection_mode = "round_robin" =>
        LET n == Len(Routable)
        IN  /\ n > 0 => current_index \in 0..(n - 1)
            /\ \A i \in 1..Len(picks) :
                  /\ n = 0 => picks[i].host = NoServer.host /\ picks[i].status = 503
                  /\ n > 0 => picks[i].host = Routable[(picks[i].at % n) + 1].host
                  /\ n > 0 /\ i < Len(picks) =>
                        picks[i + 1].at = (picks[i].at + 1) % n
                  /\ n > 0 /\ i = Len(picks) =>
                        current_index = (picks[i].at + 1) % n
            /\ \A i \in 1..Len(picks) :
                  (n > 0 /\ i + n - 1 <= Len(picks)) =>
                      Cardinality({picks[j].host : j \in i..(i + n - 1)}) = n

\* three calls in a row on three workers, starting in the middle of the set
C16_Witness ==
    /\ selection_mode = "round_robin"
    /\ Len(Routable) = 3
    /\ Len(picks) = 3
    /\ picks[1].at = 1
    /\ {picks[i].host : i \in 1..3} = RoutableHosts

----------------------------------------------------------------------------
(* Properties of concurrent selection, checked under SpecConc *)

AllDone == \A h \in Handlers : handlers[h].pc = "done"

\* the ways to put the callers in an order
CallOrders ==
    {f \in [Handlers -> 0..(MaxHandlers - 1)] :
        \A g, h \in Handlers : g # h => f[g] # f[h]}

\* C12: once the k concurrent calls of choose_backend against an unchanged
\* set of n workers have returned, they were served from k consecutive cursor
\* values modulo n (no two from the same value), each got the worker at its
\* cursor value, and the cursor stands k further modulo n.
C12_CursorIncrementAtomic ==
    AllDone =>
        LET n == Len(Routable)
        IN  \E c0 \in 0..(n - 1) : \E f \in CallOrders :
              /\ \A h \in Handlers :
                    /\ handlers[h].at = (c0 + f[h]) % n
                    /\ handlers[h].server = Routable[handlers[h].at + 1].host
              /\ current_index = (c0 + MaxHandlers) % n

----------------------------------------------------------------------------
(* Properties of the prober loop, checked under SpecProber *)

\* the prober sits in the 30 s sleep and the model follows it no further
Horizon == prober_pc = "sleep" /\ ~can_sleep

\* C21: the event is set exactly while a trigger raised since the last clear
\* is outstanding, however many were raised; wait returns early only on such
\* a trigger, the clear that follows consumes them all, so that no further
\* early pass comes until the next trigger; and every trigger is followed by
\* an iteration of check_servers that starts after it.
C21_TriggerOneShotNoLostWakeup ==
    /\ [](immediate_check_event <=> signal.raised > 0)
    /\ [][(prober_pc = "wait" /\ prober_pc' = "clear") => signal.raised > 0]_vars
    /\ [][(prober_pc = "clear" /\ prober_pc' = "check") =>
              ~immediate_check_event' /\ signal'.raised = 0]_vars
    /\ (signal.pending ~> (~signal.pending \/ Horizon))

\* two triggers were raised before the prober cleared the event, and the one
\* wakeup that consumed both is about to run its pass
C21_Witness ==
    /\ prober_pc = "check"
    /\ signal.woken = 2
    /\ signal.pending
    /\ ~immediate_check_event
    /\ pass.n = 1

----------------------------------------------------------------------------
(* Properties of /load requests, checked under SpecRoute *)

TriedDead == {i \in 1..Len(response.tried) : response.tried[i] \in response.dead}

----------------------------------------------------------------------------
(* Properties of the autoscaler under a constant load, checked under SpecSteady *)

\* C24: no flapping. With the CPU load held constant, min_instances <=
\* max_instances and nobody else touching the fleet, the floor branch never
\* brings the autoscaler back to where an earlier floor start had left it
\* after a removal: right after a floor start both timers are None and
\* last_scale_time is the time of the tick, so the same fleet there twice is
\* a cycle of removals and floor starts that goes on for ever.
C24_NoFlapping ==
    \A i, j \in 1..Len(steady.restored) :
        i < j => steady.restored[i] # steady.restored[j]

====
